---- MODULE Spec2Model ----
(***************************************************************************)
(* A model of sprawl's order replication core: the storage key scheme,     *)
(* the wire codec, OrderService (Create, Receive, GetOrder, Delete) and     *)
(* the p2p stream manager (OpenStream, WriteToStream, CloseStream and the   *)
(* per-stream receive loop).                                                *)
(*                                                                         *)
(* Byte strings are sequences of numbers in 0..255.                         *)
(***************************************************************************)
EXTENDS Integers, Sequences, FiniteSets, TLC

(***************************************************************************)
(* Byte strings                                                            *)
(***************************************************************************)

\* strings.Join(parts, ""): plain concatenation, no separator.
RECURSIVE Join(_)
Join(parts) ==
    IF parts = <<>> THEN <<>> ELSE Head(parts) \o Join(Tail(parts))

\* strings.HasPrefix, as a prefix scan of a key-value store applies it.
HasPrefix(s, p) ==
    /\ Len(p) <= Len(s)
    /\ SubSeq(s, 1, Len(p)) = p

\* The sequences that enumerate a finite set, each element once.
Perms(S) ==
    { f \in [1..Cardinality(S) -> S] : \A x \in S : \E i \in 1..Cardinality(S) : f[i] = x }

(***************************************************************************)
(* Storage key scheme (service/order.go)                                   *)
(***************************************************************************)

\* interfaces.OrderPrefix, the namespace tag of order keys: "order-".
OrderPrefix == <<111, 114, 100, 101, 114, 45>>

\* A faulty variant of getOrderStorageKey that leaves the channel out of the
\* key; CreateIsolation must tell it from the real one.
KeyWithoutChannel(channelID, orderID) == Join(<<OrderPrefix, orderID>>)

getOrderStorageKey(channelID, orderID) ==
    Join(<<OrderPrefix, channelID, orderID>>)

getOrderQueryPrefix(channelID) ==
    Join(<<OrderPrefix, channelID>>)

(***************************************************************************)
(* Wire codec: protocol buffers encoding of Order, OrderList, WireMessage  *)
(***************************************************************************)

\* pb.Operation
CREATE == 0
DELETE == 1
SYNC_REQUEST == 2
SYNC_RECEIVE == 3

\* pb.State
OPEN == 0

\* Created is a pointer to a Timestamp: NilTime is the nil pointer.
NilTime == -1

\* The zero value of pb.Order, what proto.Unmarshal starts from.
EmptyOrder ==
    [id |-> <<>>, created |-> NilTime, asset |-> <<>>, counterAsset |-> <<>>,
     amount |-> 0, price |-> 0, state |-> OPEN]

EmptyWireMessage == [channelID |-> <<>>, operation |-> CREATE, data |-> <<>>]

\* Base-128 varint, least significant group first.
RECURSIVE Varint(_)
Varint(n) ==
    IF n < 128 THEN <<n>> ELSE <<128 + (n % 128)>> \o Varint(n \div 128)

\* The varint that starts at byte i of b: its value and the index after it.
\* acc is the value of the groups read so far, mult the weight of the next.
RECURSIVE ReadVarintFrom(_, _, _, _)
ReadVarintFrom(b, i, mult, acc) ==
    IF i > Len(b) THEN [ok |-> FALSE, val |-> 0, next |-> i]
    ELSE IF b[i] < 128 THEN [ok |-> TRUE, val |-> acc + mult * b[i], next |-> i + 1]
    ELSE ReadVarintFrom(b, i + 1, mult * 128, acc + mult * (b[i] - 128))

ReadVarint(b, i) == ReadVarintFrom(b, i, 1, 0)

\* Little-endian fixed-width number (wire types 5 and 1).
RECURSIVE Fixed(_, _)
Fixed(n, width) ==
    IF width = 0 THEN <<>> ELSE <<n % 256>> \o Fixed(n \div 256, width - 1)

RECURSIVE ReadFixed(_)
ReadFixed(b) ==
    IF b = <<>> THEN 0 ELSE Head(b) + 256 * ReadFixed(Tail(b))

Tag(num, wt) == Varint(num * 8 + wt)

VarintField(num, v) == IF v = 0 THEN <<>> ELSE Tag(num, 0) \o Varint(v)

BytesField(num, s) == IF s = <<>> THEN <<>> ELSE Tag(num, 2) \o Varint(Len(s)) \o s

\* An embedded message is written whenever the pointer is set, even if empty.
MessageField(num, s) == Tag(num, 2) \o Varint(Len(s)) \o s

Fixed32Field(num, v) == IF v = 0 THEN <<>> ELSE Tag(num, 5) \o Fixed(v, 4)

BadParse == [ok |-> FALSE, fields |-> <<>>]

\* The fields of an encoded message from byte i on, after the fields acc
\* already read: tag, then the value its wire type announces.  A truncated
\* value or a wire type that does not exist is a decode error.
RECURSIVE ParseFrom(_, _, _)
ParseFrom(b, i, acc) ==
    IF i > Len(b) THEN [ok |-> TRUE, fields |-> acc]
    ELSE
      LET t == ReadVarint(b, i)
          num == t.val \div 8
          wt == t.val % 8
          Sized(n, from) ==
              IF from + n - 1 > Len(b) THEN BadParse
              ELSE ParseFrom(b, from + n,
                             Append(acc, [num |-> num, wt |-> wt, val |-> 0,
                                          bytes |-> SubSeq(b, from, from + n - 1)]))
      IN  IF ~t.ok \/ num = 0 THEN BadParse
          ELSE CASE wt = 0 ->
                      LET v == ReadVarint(b, t.next)
                      IN  IF ~v.ok THEN BadParse
                          ELSE ParseFrom(b, v.next,
                                         Append(acc, [num |-> num, wt |-> wt,
                                                      val |-> v.val, bytes |-> <<>>]))
                 [] wt = 2 ->
                      LET l == ReadVarint(b, t.next)
                      IN  IF ~l.ok THEN BadParse ELSE Sized(l.val, l.next)
                 [] wt = 5 -> Sized(4, t.next)
                 [] wt = 1 -> Sized(8, t.next)
                 [] OTHER -> BadParse

Parse(b) == ParseFrom(b, 1, <<>>)

\* The last occurrence of field num with wire type wt wins; a known field
\* number with another wire type is skipped as an unknown field.
RECURSIVE LastField(_, _, _, _)
LastField(fields, num, wt, default) ==
    IF fields = <<>> THEN default
    ELSE LET f == fields[Len(fields)]
         IN  IF f.num = num /\ f.wt = wt THEN f
             ELSE LastField(SubSeq(fields, 1, Len(fields) - 1), num, wt, default)

NoField == [num |-> 0, wt |-> 0, val |-> 0, bytes |-> <<>>]

HasField(fields, num, wt) == LastField(fields, num, wt, NoField) # NoField

\* google.protobuf.Timestamp{seconds = 1}
MarshalTimestamp(secs) == VarintField(1, secs)

TimestampOf(p) == [ok |-> p.ok, secs |-> LastField(p.fields, 1, 0, NoField).val]

UnmarshalTimestamp(b) == TimestampOf(Parse(b))

\* proto.Marshal of a pb.Order: fields in field-number order, zero values
\* left out (proto3).
MarshalOrder(o) ==
    Join(<< BytesField(1, o.id),
            IF o.created = NilTime THEN <<>>
            ELSE MessageField(2, MarshalTimestamp(o.created)),
            BytesField(3, o.asset),
            BytesField(4, o.counterAsset),
            VarintField(5, o.amount),
            Fixed32Field(6, o.price),
            VarintField(7, o.state) >>)

\* The Created field of the parsed fields f: nil when absent.
CreatedOf(f) ==
    IF HasField(f, 2, 2) THEN UnmarshalTimestamp(LastField(f, 2, 2, NoField).bytes)
    ELSE [ok |-> TRUE, secs |-> NilTime]

\* The pb.Order of parsed fields f with Created ts.
OrderOf(ok, f, ts) ==
    IF ~ok \/ ~ts.ok THEN [ok |-> FALSE, order |-> EmptyOrder]
    ELSE [ok |-> TRUE,
          order |-> [id |-> LastField(f, 1, 2, NoField).bytes,
                     created |-> ts.secs,
                     asset |-> LastField(f, 3, 2, NoField).bytes,
                     counterAsset |-> LastField(f, 4, 2, NoField).bytes,
                     amount |-> LastField(f, 5, 0, NoField).val,
                     price |-> ReadFixed(LastField(f, 6, 5, NoField).bytes),
                     state |-> LastField(f, 7, 0, NoField).val]]

OrderOfParse(p) == OrderOf(p.ok, p.fields, CreatedOf(p.fields))

\* proto.Unmarshal into a fresh pb.Order.
UnmarshalOrder(b) == OrderOfParse(Parse(b))

\* proto.Marshal of a pb.OrderList{repeated Order orders = 1}.
RECURSIVE MarshalOrderList(_)
MarshalOrderList(orders) ==
    IF orders = <<>> THEN <<>>
    ELSE MessageField(1, MarshalOrder(Head(orders))) \o MarshalOrderList(Tail(orders))

\* The repeated field 1 of an OrderList, each element decoded as an Order and
\* appended to acc; one element that does not decode fails the whole list.
RECURSIVE UnmarshalOrders(_, _)
UnmarshalOrders(fields, acc) ==
    IF fields = <<>> THEN [ok |-> TRUE, orders |-> acc]
    ELSE LET f == Head(fields)
             o == UnmarshalOrder(f.bytes)
         IN  IF f.num # 1 \/ f.wt # 2 THEN UnmarshalOrders(Tail(fields), acc)
             ELSE IF ~o.ok THEN [ok |-> FALSE, orders |-> <<>>]
             ELSE UnmarshalOrders(Tail(fields), Append(acc, o.order))

OrderListOfParse(p) ==
    IF ~p.ok THEN [ok |-> FALSE, orders |-> <<>>]
    ELSE UnmarshalOrders(p.fields, <<>>)

UnmarshalOrderList(b) == OrderListOfParse(Parse(b))

\* proto.Marshal of a pb.WireMessage{channelID = 1, operation = 2, data = 3}.
MarshalWireMessage(m) ==
    Join(<< BytesField(1, m.channelID),
            VarintField(2, m.operation),
            BytesField(3, m.data) >>)

WireMessageOfParse(p) ==
    IF ~p.ok THEN [ok |-> FALSE, msg |-> EmptyWireMessage]
    ELSE [ok |-> TRUE,
          msg |-> [channelID |-> LastField(p.fields, 1, 2, NoField).bytes,
                   operation |-> LastField(p.fields, 2, 0, NoField).val,
                   data |-> LastField(p.fields, 3, 2, NoField).bytes]]

UnmarshalWireMessage(b) == WireMessageOfParse(Parse(b))

(***************************************************************************)
(* Bounds and inputs                                                       *)
(***************************************************************************)

\* API calls and inbound messages of peers outside the model, in one run.
MaxOps == 3
\* Timestamps TimestampNow can return.
MaxTime == 2
\* Handlers that are between two of their steps at the same time.
MaxThreads == 2
\* Direct streams opened in one run.
MaxConns == 2

\* X is the node under test: its API is called, peers address it, and it runs
\* with or without storage and transport.  Y is its peer, a replica that is
\* wired completely (NewServer with storage and p2p) and only replicates.
Nodes == {"X", "Y"}
Local == "X"
Replica == "Y"
Peer(n) == CHOOSE m \in Nodes : m # n
Threads == 1..MaxThreads
Times == 1..MaxTime

\* Channel "a" is a byte-prefix of channel "ab".
ChannelA == <<97>>
ChannelB == <<97, 98>>
Channels == {ChannelA, ChannelB}

\* pb.CreateRequest
Requests ==
    { [channelID |-> ch, asset |-> <<69>>, counterAsset |-> <<66>>,
       amount |-> 5, price |-> 2] : ch \in Channels }

\* sha256.Size: the length of h.Sum(nil)
Size == 32

RECURSIVE SumBytes(_)
SumBytes(s) == IF s = <<>> THEN 0 ELSE Head(s) + SumBytes(Tail(s))

\* hmac.New(sha256.New, secret) over in.String() followed by now.String():
\* a digest of Size bytes that is a function of the request and the
\* timestamp alone, and differs for the different inputs of this model.
HmacSum(in, now) ==
    LET text == Join(<<in.channelID, in.asset, in.counterAsset,
                       <<in.amount, in.price>>, <<now>>>>)
    IN  [i \in 1..Size |-> SumBytes(text) % 256]

(***************************************************************************)
(* Storage adapter: Put, Get, Delete, GetAllWithPrefix over a map from     *)
(* key to value.  A stored value remembers the (channelID, orderID) of the *)
(* call that wrote it, which the program itself never reads.               *)
(***************************************************************************)

Put(store, key, value) == (key :> value) @@ store

Has(store, key) == key \in DOMAIN store

\* Delete of a missing key is no error and changes nothing.
DeleteKey(store, key) == [k \in DOMAIN store \ {key} |-> store[k]]

GetAllWithPrefix(store, prefix) == { k \in DOMAIN store : HasPrefix(k, prefix) }

Stored(channelID, orderID, data) ==
    [data |-> data, channelID |-> channelID, orderID |-> orderID]

(***************************************************************************)
(* State                                                                   *)
(***************************************************************************)

VARIABLES
    Storage,    \* Storage[n]: OrderService.Storage of node n is registered
    P2p,        \* P2p[n]: OrderService.P2p of node n is registered
    db,         \* db[n]: the key-value store of node n
    crashed,    \* crashed[n]: a panic has ended the process of node n
    thr,        \* thr[t]: the handler that is between two of its steps
    net,        \* broadcasts published and not yet delivered
    streams,    \* streams[n]: p2p.streams of node n, peer -> Stream
    conns,      \* the direct streams opened so far
    last,       \* last[n]: what the handler that last finished on n returned
    created,    \* the orders Create has returned
    deleted,    \* the (channel, id) Delete has removed without error
    ops,        \* API calls and outside messages so far
    published,  \* every broadcast published so far
    faulty      \* whether calls of the storage adapter can return an error

vars == <<Storage, P2p, db, crashed, thr, net, streams, conns, last, created,
          deleted, ops, published, faulty>>

NoErr == ""

\* What a call of the storage adapter can do: succeed, or also return an error.
StorageOutcomes == IF faulty THEN BOOLEAN ELSE {TRUE}

Idle ==
    [op |-> "idle", node |-> "", pc |-> "", channelID |-> <<>>, orderID |-> <<>>,
     order |-> EmptyOrder, data |-> <<>>, err |-> NoErr, from |-> "",
     todo |-> <<>>, caller |-> 0, again |-> FALSE, stream |-> 0, operation |-> 0,
     opened |-> 0]

NoCall ==
    [op |-> "none", operation |-> CREATE, channelID |-> <<>>, orderID |-> <<>>,
     order |-> EmptyOrder, err |-> NoErr, from |-> "", again |-> FALSE]

\* The zero value of p2p.Stream: no connection, a nil input writer.
ZeroStream == 0

\* The state after construction, with a storage adapter whose calls can
\* (canFail) or cannot return an error.
InitWith(canFail) ==
    /\ Storage = [n \in Nodes |-> n = Replica]
    /\ P2p = [n \in Nodes |-> n = Replica]
    /\ db = [n \in Nodes |-> <<>>]
    /\ crashed = [n \in Nodes |-> FALSE]
    /\ thr = [t \in Threads |-> Idle]
    /\ net = {}
    /\ streams = [n \in Nodes |-> <<>>]
    /\ conns = <<>>
    /\ last = [n \in Nodes |-> NoCall]
    /\ created = {}
    /\ deleted = {}
    /\ ops = 0
    /\ published = {}
    /\ faulty = canFail

Init == InitWith(FALSE)

Running(n) == { t \in Threads : thr[t].op # "idle" /\ thr[t].node = n }

\* The slot a new handler takes.
FreeThread == CHOOSE t \in Threads : thr[t].op = "idle" /\ \A u \in 1..(t - 1) : thr[u].op # "idle"

HasFreeThread == \E t \in Threads : thr[t].op = "idle"

\* A panic that nothing recovers ends the process: its handlers stop, its
\* map of streams is gone and the connections it holds are closed.
Panic(n) ==
    /\ crashed' = [crashed EXCEPT ![n] = TRUE]
    /\ thr' = [t \in Threads |-> IF thr[t].node = n THEN Idle ELSE thr[t]]
    /\ streams' = [streams EXCEPT ![n] = <<>>]
    /\ conns' = [c \in DOMAIN conns |->
                   IF conns[c].src = n THEN [conns[c] EXCEPT !.open = FALSE]
                   ELSE IF conns[c].dst = n /\ conns[c].reader # "done"
                   THEN [conns[c] EXCEPT !.reader = "done", !.cause = "crash"]
                   ELSE conns[c]]

(***************************************************************************)
(* OrderService: registration                                              *)
(***************************************************************************)

RegisterStorage(n) ==
    /\ ops = 0
    /\ ~Storage[n]
    /\ Storage' = [Storage EXCEPT ![n] = TRUE]
    /\ UNCHANGED <<P2p, faulty, db, crashed, thr, net, published, streams, conns, last, created, deleted, ops>>

RegisterP2p(n) ==
    /\ ops = 0
    /\ ~P2p[n]
    /\ P2p' = [P2p EXCEPT ![n] = TRUE]
    /\ UNCHANGED <<Storage, faulty, db, crashed, thr, net, published, streams, conns, last, created, deleted, ops>>

\* P2p.Send: the marshaled WireMessage is published on the channel's topic;
\* every other node is subscribed and gets one copy.
Send(n, wireMessage) ==
    { [to |-> m, from |-> n, buf |-> MarshalWireMessage(wireMessage)] : m \in Nodes \ {n} }

(***************************************************************************)
(* OrderService.Create                                                     *)
(***************************************************************************)

\* The order Create constructs from its request and the current time.
NewOrder(in, now) ==
    [id |-> HmacSum(in, now), created |-> now, asset |-> in.asset,
     counterAsset |-> in.counterAsset, amount |-> in.amount, price |-> in.price,
     state |-> OPEN]

\* Create up to the local save: builds the order, marshals it and puts it in
\* storage under its key.  Storage is used without a nil check.
CreatePut(n, in, now) ==
    /\ ~crashed[n]
    /\ ops < MaxOps
    /\ HasFreeThread
    /\ ops' = ops + 1
    /\ IF ~Storage[n]
       THEN /\ Panic(n)
            /\ UNCHANGED <<Storage, faulty, P2p, db, net, published, last, created, deleted>>
       ELSE \E ok \in StorageOutcomes :
              LET order == NewOrder(in, now)
                  orderInBytes == MarshalOrder(order)
                  key == getOrderStorageKey(in.channelID, order.id)
              IN  /\ db' = [db EXCEPT ![n] =
                              IF ok THEN Put(@, key, Stored(in.channelID, order.id, orderInBytes))
                              ELSE @]
                  /\ thr' = [thr EXCEPT ![FreeThread] =
                               [Idle EXCEPT !.op = "Create", !.node = n, !.pc = "send",
                                            !.channelID = in.channelID,
                                            !.orderID = order.id, !.order = order,
                                            !.data = orderInBytes,
                                            !.err = IF ok THEN NoErr ELSE "Put order"]]
                  /\ UNCHANGED <<Storage, faulty, P2p, crashed, net, published, streams, conns, last,
                                 created, deleted>>

\* Create from the broadcast to its return.
CreateSend(t) ==
    LET f == thr[t]
        n == f.node
        wireMessage == [channelID |-> f.channelID, operation |-> CREATE, data |-> f.data]
    IN  /\ f.op = "Create"
        /\ f.pc = "send"
        /\ net' = IF P2p[n] THEN net \cup Send(n, wireMessage) ELSE net
        /\ published' = IF P2p[n] THEN published \cup Send(n, wireMessage) ELSE published
        /\ last' = [last EXCEPT ![n] =
                      [NoCall EXCEPT !.op = "Create", !.channelID = f.channelID,
                                     !.orderID = f.orderID, !.order = f.order,
                                     !.err = f.err]]
        /\ created' = created \cup {[node |-> n, channelID |-> f.channelID, order |-> f.order]}
        /\ thr' = [thr EXCEPT ![t] = Idle]
        /\ UNCHANGED <<Storage, faulty, P2p, db, crashed, streams, conns, deleted, ops>>

(***************************************************************************)
(* OrderService.Delete                                                     *)
(***************************************************************************)

\* Whether the handler that last finished on n was a Delete of the same
\* (channel, id) and nothing else is running on n: this call repeats it.
Repeats(n, channelID, orderID) ==
    /\ last[n].op = "Delete"
    /\ last[n].channelID = channelID
    /\ last[n].orderID = orderID
    /\ Running(n) = {}

\* A faulty variant of Delete that goes to the local removal without the
\* broadcast; DeleteOrdering must tell it from the real one.
DeleteGetSilent(n, channelID, orderID) ==
    LET key == getOrderStorageKey(channelID, orderID)
        call == [NoCall EXCEPT !.op = "Delete", !.channelID = channelID,
                               !.orderID = orderID,
                               !.again = Repeats(n, channelID, orderID)]
    IN  /\ ~crashed[n]
        /\ ops < MaxOps
        /\ HasFreeThread
        /\ ops' = ops + 1
        /\ IF ~Storage[n]
           THEN /\ Panic(n)
                /\ UNCHANGED <<Storage, faulty, P2p, db, net, published, last, created, deleted>>
           ELSE IF ~Has(db[n], key)
           THEN /\ last' = [last EXCEPT ![n] = [call EXCEPT !.err = "Delete order"]]
                /\ UNCHANGED <<Storage, faulty, P2p, db, crashed, thr, net, published, streams, conns,
                               created, deleted>>
           ELSE LET orderInBytes == db[n][key].data
                IN  /\ net' = net
                    /\ published' = published
                    /\ thr' = [thr EXCEPT ![FreeThread] =
                                 [Idle EXCEPT !.op = "Delete", !.node = n, !.pc = "remove",
                                              !.channelID = channelID, !.orderID = orderID,
                                              !.data = orderInBytes, !.again = call.again]]
                    /\ UNCHANGED <<Storage, faulty, P2p, db, crashed, streams, conns, last,
                                   created, deleted>>

\* Delete up to the broadcast: reads the order, returns the error if the key
\* is missing, else broadcasts DELETE with the stored bytes.
DeleteGet(n, channelID, orderID) ==
    LET key == getOrderStorageKey(channelID, orderID)
        call == [NoCall EXCEPT !.op = "Delete", !.channelID = channelID,
                               !.orderID = orderID,
                               !.again = Repeats(n, channelID, orderID)]
    IN  /\ ~crashed[n]
        /\ ops < MaxOps
        /\ HasFreeThread
        /\ ops' = ops + 1
        /\ IF ~Storage[n]
           THEN /\ Panic(n)
                /\ UNCHANGED <<Storage, faulty, P2p, db, net, published, last, created, deleted>>
           ELSE IF ~Has(db[n], key)
           THEN /\ last' = [last EXCEPT ![n] = [call EXCEPT !.err = "Delete order"]]
                /\ UNCHANGED <<Storage, faulty, P2p, db, crashed, thr, net, published, streams, conns,
                               created, deleted>>
           ELSE LET orderInBytes == db[n][key].data
                    wireMessage == [channelID |-> channelID, operation |-> DELETE,
                                    data |-> orderInBytes]
                IN  /\ net' = IF P2p[n] THEN net \cup Send(n, wireMessage) ELSE net
                    /\ published' = IF P2p[n] THEN published \cup Send(n, wireMessage)
                                  ELSE published
                    /\ thr' = [thr EXCEPT ![FreeThread] =
                                 [Idle EXCEPT !.op = "Delete", !.node = n, !.pc = "remove",
                                              !.channelID = channelID, !.orderID = orderID,
                                              !.data = orderInBytes, !.again = call.again]]
                    /\ UNCHANGED <<Storage, faulty, P2p, db, crashed, streams, conns, last,
                                   created, deleted>>

\* Delete from the local removal to its return.
DeleteRemove(t) ==
    LET f == thr[t]
        n == f.node
    IN  /\ f.op = "Delete"
        /\ f.pc = "remove"
        /\ \E ok \in StorageOutcomes :
             /\ db' = [db EXCEPT ![n] =
                         IF ok THEN DeleteKey(@, getOrderStorageKey(f.channelID, f.orderID))
                         ELSE @]
             /\ last' = [last EXCEPT ![n] =
                           [NoCall EXCEPT !.op = "Delete", !.channelID = f.channelID,
                                          !.orderID = f.orderID, !.again = f.again,
                                          !.err = IF ok THEN NoErr ELSE "Delete order"]]
             /\ deleted' = IF ok
                           THEN deleted \cup {[node |-> n, channelID |-> f.channelID,
                                               orderID |-> f.orderID]}
                           ELSE deleted
        /\ thr' = [thr EXCEPT ![t] = Idle]
        /\ UNCHANGED <<Storage, faulty, P2p, crashed, net, published, streams, conns, created, ops>>

(***************************************************************************)
(* OrderService.GetOrder, and the orders a prefix query returns            *)
(***************************************************************************)

\* GetOrder against a store: an error if the key is missing, else the stored
\* bytes decoded into a fresh Order (the decoding error is not looked at).
GetOrderIn(store, channelID, orderID) ==
    LET key == getOrderStorageKey(channelID, orderID)
    IN  IF ~Has(store, key) THEN [err |-> "Get order", order |-> EmptyOrder]
        ELSE [err |-> NoErr, order |-> UnmarshalOrder(store[key].data).order]

GetOrder(n, channelID, orderID) == GetOrderIn(db[n], channelID, orderID)

\* The keys the SYNC_REQUEST handler's query for a channel returns.
ChannelKeys(n, channelID) == GetAllWithPrefix(db[n], getOrderQueryPrefix(channelID))

\* The ids of the orders that query returns, as the handler decodes them.
ChannelIds(n, channelID) ==
    { UnmarshalOrder(db[n][k].data).order.id : k \in ChannelKeys(n, channelID) }

(***************************************************************************)
(* OrderService.Receive                                                    *)
(***************************************************************************)

\* The SYNC_RECEIVE envelope the SYNC_REQUEST handler builds from the values
\* its query returned, in the order the map iteration visits the keys.
SyncMessage(n, channelID, keys) ==
    LET orderList == [i \in 1..Len(keys) |-> UnmarshalOrder(db[n][keys[i]].data).order]
    IN  MarshalWireMessage([channelID |-> channelID, operation |-> SYNC_RECEIVE,
                            data |-> MarshalOrderList(orderList)])

\* The nil check that guards every use of storage in Receive.
\* A faulty variant of the storage check that takes storage for registered;
\* StorageLess must tell it from the real one.
StorageAssumed(n) == TRUE

StorageRegistered(n) == Storage[n]

\* What the first step of Receive leaves: it has returned (done, with err and
\* the store as it leaves it) or goes on with the steps of a sync (pc, with
\* the bytes or the orders it carries along).
Outcome(m, orderID, done, err, store, pc, bytes, todo) ==
    [done |-> done, err |-> err, store |-> store, pc |-> pc, data |-> bytes,
     todo |-> todo, operation |-> m.operation, channelID |-> m.channelID,
     orderID |-> orderID]

Return(m, orderID, err, store) == Outcome(m, orderID, TRUE, err, store, "", <<>>, <<>>)

\* A faulty variant of the CREATE case that acknowledges the order without
\* storing it; CreateThenApply must tell it from the real one.
ReceiveCreateDropped(n, m, order, ok) ==
    IF ~order.ok THEN Return(m, <<>>, "Unmarshal order proto in Receive", db[n])
    ELSE Return(m, order.order.id, NoErr, db[n])

\* case pb.Operation_CREATE: the payload must decode as an Order; it is put
\* under (channelID, order.id) as received.
ReceiveCreate(n, m, order, ok) ==
    IF ~order.ok THEN Return(m, <<>>, "Unmarshal order proto in Receive", db[n])
    ELSE IF ~ok THEN Return(m, order.order.id, "Put order", db[n])
    ELSE Return(m, order.order.id, NoErr,
                Put(db[n], getOrderStorageKey(m.channelID, order.order.id),
                    Stored(m.channelID, order.order.id, m.data)))

\* case pb.Operation_DELETE: the payload is decoded for its id and the key of
\* (channelID, order.id) is deleted.
ReceiveDelete(n, m, order, ok) ==
    IF ~order.ok THEN Return(m, <<>>, "Unmarshal order proto in Receive", db[n])
    ELSE IF ~ok THEN Return(m, order.order.id, "Put order", db[n])
    ELSE Return(m, order.order.id, NoErr,
                DeleteKey(db[n], getOrderStorageKey(m.channelID, order.order.id)))

\* case pb.Operation_SYNC_REQUEST up to the marshaled answer.
ReceiveSyncRequest(n, m, keys, ok) ==
    IF ~ok THEN Return(m, <<>>, "Fetch orders for sync", db[n])
    ELSE Outcome(m, <<>>, FALSE, NoErr, db[n], "open",
                 SyncMessage(n, m.channelID, keys), <<>>)

\* case pb.Operation_SYNC_RECEIVE up to the loop over the decoded list.
ReceiveSyncReceive(n, m, orderList) ==
    IF ~orderList.ok THEN Return(m, <<>>, "Unmarshal order proto in Receive", db[n])
    ELSE IF orderList.orders = <<>> THEN Return(m, <<>>, NoErr, db[n])
    ELSE Outcome(m, <<>>, FALSE, NoErr, db[n], "put", <<>>, orderList.orders)

\* Receive after the envelope w has been decoded.
\*   keys: the order a SYNC_REQUEST's query result is iterated in
\*   ok:   whether the storage call succeeds
Dispatch(n, w, keys, ok) ==
    IF ~w.ok THEN Return(w.msg, <<>>, "Unmarshal wiremessage proto in Receive", db[n])
    ELSE IF ~StorageRegistered(n) THEN Return(w.msg, <<>>, NoErr, db[n])
    ELSE CASE w.msg.operation = CREATE ->
                ReceiveCreate(n, w.msg, UnmarshalOrder(w.msg.data), ok)
           [] w.msg.operation = DELETE ->
                ReceiveDelete(n, w.msg, UnmarshalOrder(w.msg.data), ok)
           [] w.msg.operation = SYNC_REQUEST ->
                ReceiveSyncRequest(n, w.msg, keys, ok)
           [] w.msg.operation = SYNC_RECEIVE ->
                ReceiveSyncReceive(n, w.msg, UnmarshalOrderList(w.msg.data))
           [] OTHER -> Return(w.msg, <<>>, NoErr, db[n])

\* Receive from its entry to the end of its first storage action.
Receive(n, buf, keys, ok) == Dispatch(n, UnmarshalWireMessage(buf), keys, ok)

\* The iteration orders of the query a SYNC_REQUEST makes; one empty order for
\* every other message.
KeyOrdersOf(n, w) ==
    IF w.ok /\ w.msg.operation = SYNC_REQUEST /\ StorageRegistered(n)
    THEN Perms(GetAllWithPrefix(db[n], getOrderQueryPrefix(w.msg.channelID)))
    ELSE {<<>>}

KeyOrders(n, buf) == KeyOrdersOf(n, UnmarshalWireMessage(buf))

\* What a finished Receive leaves in last[n].
Received(operation, channelID, orderID, err, from) ==
    [NoCall EXCEPT !.op = "Receive", !.operation = operation,
                   !.channelID = channelID, !.orderID = orderID,
                   !.err = err, !.from = from]

\* The receive loop of connection caller after the Receive it called has
\* returned err: an error ends the loop; after an empty frame the loop closes
\* the stream and ends; otherwise it reads on.
ReaderAfter(cs, caller, err) ==
    IF caller = 0 THEN cs
    ELSE IF err # NoErr
    THEN [cs EXCEPT ![caller].reader = "done", ![caller].cause = "receiver"]
    ELSE IF cs[caller].got[Len(cs[caller].got)] = <<>>
    THEN [cs EXCEPT ![caller].reader = "done", ![caller].cause = "empty",
                    ![caller].readerClosed = TRUE]
    ELSE [cs EXCEPT ![caller].reader = "reading"]

\* The state a call of Receive leaves when its first step leaves out.
AfterReceive(n, from, caller, cs, out) ==
    /\ db' = [db EXCEPT ![n] = out.store]
    /\ IF out.done
       THEN /\ last' = [last EXCEPT ![n] =
                          Received(out.operation, out.channelID, out.orderID,
                                   out.err, from)]
            /\ thr' = thr
            /\ conns' = ReaderAfter(cs, caller, out.err)
       ELSE /\ last' = last
            /\ thr' = [thr EXCEPT ![FreeThread] =
                         [Idle EXCEPT !.op = "Receive", !.node = n, !.pc = out.pc,
                                      !.operation = out.operation,
                                      !.channelID = out.channelID,
                                      !.data = out.data, !.todo = out.todo,
                                      !.from = from, !.caller = caller]]
            /\ conns' = IF caller = 0 THEN cs
                        ELSE [cs EXCEPT ![caller].reader = "busy"]

\* One call of Receive on node n, made by caller (0: the pubsub dispatch, else
\* the connection whose receive loop makes it, the connections being cs).
CallReceive(n, buf, from, caller, cs) ==
    /\ ~crashed[n]
    /\ HasFreeThread
    /\ \E keys \in KeyOrders(n, buf), ok \in StorageOutcomes :
         AfterReceive(n, from, caller, cs, Receive(n, buf, keys, ok))

\* A broadcast reaches a subscriber, whose transport hands it to Receive.
Deliver(m) ==
    /\ m \in net
    /\ CallReceive(m.to, m.buf, m.from, 0, conns)
    /\ net' = net \ {m}
    /\ published' = published
    /\ UNCHANGED <<Storage, faulty, P2p, crashed, streams, created, deleted, ops>>

\* Orders a peer may announce that no Create of this model made.
OrderC ==
    [id |-> <<99>>, created |-> 1, asset |-> <<69>>, counterAsset |-> <<66>>,
     amount |-> 5, price |-> 2, state |-> OPEN]
OrderBC == [OrderC EXCEPT !.id = <<98, 99>>]

\* The messages a peer outside the model's code may publish: a CREATE and a
\* DELETE, a sync request, a sync answer, and bytes that are no WireMessage.
InboundMessages ==
    { MarshalWireMessage([channelID |-> ChannelB, operation |-> CREATE,
                          data |-> MarshalOrder(OrderC)]),
      MarshalWireMessage([channelID |-> ChannelA, operation |-> DELETE,
                          data |-> MarshalOrder(OrderBC)]),
      MarshalWireMessage([channelID |-> ChannelA, operation |-> SYNC_REQUEST,
                          data |-> <<>>]),
      MarshalWireMessage([channelID |-> ChannelA, operation |-> SYNC_RECEIVE,
                          data |-> MarshalOrderList(<<OrderBC>>)]),
      <<10>> }

\* The peer of n sends n a message of its own making.
Inbound(n, buf) ==
    /\ ops < MaxOps
    /\ ops' = ops + 1
    /\ CallReceive(n, buf, Peer(n), 0, conns)
    /\ UNCHANGED <<Storage, faulty, P2p, crashed, net, published, streams, created, deleted>>

\* A handler of Receive that went on past its first step returns err.
ReturnFromSync(t, err, cs) ==
    LET f == thr[t]
    IN  /\ last' = [last EXCEPT ![f.node] =
                      Received(f.operation, f.channelID, <<>>, err, f.from)]
        /\ thr' = [thr EXCEPT ![t] = Idle]
        /\ conns' = ReaderAfter(cs, f.caller, err)

(***************************************************************************)
(* p2p: OpenStream, WriteToStream, CloseStream                             *)
(***************************************************************************)

\* A new connection from n to peer; the peer's handleStream starts its
\* receive loop.  buf holds the bytes written and not yet read, sent all the
\* bytes written so far.  written lists the messages WriteToStream has written
\* on it and got the frames its receive loop has handed to Receive; cause
\* tells why the receive loop ended.
NewConn(n, peer) ==
    [src |-> n, dst |-> peer, buf |-> <<>>, sent |-> <<>>, open |-> TRUE,
     reader |-> "reading", readerClosed |-> FALSE, cause |-> "",
     written |-> <<>>, got |-> <<>>]

\* OpenStream when host.NewStream succeeds: the stream built for the new
\* connection goes into p2p.streams; the value returned is the variable
\* declared before the branch, which the branch shadows and never assigns.
OpenStreamReturn(c) == ZeroStream

\* A variant of WriteToStream in which a write on a Stream without a writer
\* returns an error; NoStreamLeftOpen must tell it from the real one.
WriteToStreamRefusing(cs, stream, data) ==
    IF stream = ZeroStream \/ ~cs[stream].open
    THEN [panic |-> FALSE, err |-> "Write to stream", conns |-> cs]
    ELSE [panic |-> FALSE, err |-> NoErr,
          conns |-> [cs EXCEPT ![stream].buf = @ \o data,
                               ![stream].sent = @ \o data,
                               ![stream].written = Append(@, data)]]

\* WriteToStream: Write and Flush on the stream's input writer.  A nil
\* writer is a nil dereference.
WriteToStream(cs, stream, data) ==
    IF stream = ZeroStream THEN [panic |-> TRUE, err |-> NoErr, conns |-> cs]
    ELSE IF ~cs[stream].open
    THEN [panic |-> FALSE, err |-> "Write to stream", conns |-> cs]
    ELSE [panic |-> FALSE, err |-> NoErr,
          conns |-> [cs EXCEPT ![stream].buf = @ \o data,
                               ![stream].sent = @ \o data,
                               ![stream].written = Append(@, data)]]

\* CloseStream: closes the stream filed under the peer and deletes the entry.
\* With no entry the map yields nil, and .stream on it is a nil dereference.
CloseStream(cs, map, peer) ==
    IF peer \notin DOMAIN map THEN [panic |-> TRUE, conns |-> cs, streams |-> map]
    ELSE [panic |-> FALSE,
          conns |-> [cs EXCEPT ![map[peer]].open = FALSE],
          streams |-> [p \in DOMAIN map \ {peer} |-> map[p]]]

(***************************************************************************)
(* Receive, SYNC_REQUEST: the answer over a direct stream                  *)
(***************************************************************************)

\* s.P2p.OpenStream(from), up to the assignment to p2p.streams.  P2p is used
\* without a nil check.  When host.NewStream succeeds the handler goes on to
\* the assignment with nothing in between: at pc "insert" it is inside it.
SyncOpen(t) ==
    LET f == thr[t]
        n == f.node
    IN  /\ f.op = "Receive"
        /\ f.pc = "open"
        /\ IF ~P2p[n]
           THEN /\ Panic(n)
                /\ UNCHANGED <<Storage, faulty, P2p, db, net, published, last, created, deleted, ops>>
           ELSE \E ok \in BOOLEAN :
                  IF ~ok
                  THEN /\ ReturnFromSync(t, "Open a sync request stream", conns)
                       /\ UNCHANGED <<Storage, faulty, P2p, db, crashed, net, published, streams, created,
                                      deleted, ops>>
                  ELSE /\ Len(conns) < MaxConns
                       /\ ~crashed[f.from]
                       /\ conns' = Append(conns, NewConn(n, f.from))
                       /\ thr' = [thr EXCEPT ![t].pc = "insert",
                                             ![t].opened = Len(conns) + 1]
                       /\ UNCHANGED <<Storage, faulty, P2p, db, crashed, net, published, streams,
                                      last, created, deleted, ops>>

\* The handlers of node n other than t that are inside the assignment to
\* p2p.streams.
InsertingWith(t) ==
    { u \in Threads \ {t} :
        thr[u].op = "Receive" /\ thr[u].node = thr[t].node /\ thr[u].pc = "insert" }

\* What the assignment to p2p.streams can do: store the entry, or, when
\* another handler writes the map at the same time, also end the process
\* with the runtime's "concurrent map writes".
InsertOutcomes(t) == IF InsertingWith(t) = {} THEN {TRUE} ELSE BOOLEAN

\* p2p.streams[peer] = newStream, the end of OpenStream and its return.
SyncInsert(t) ==
    LET f == thr[t]
        n == f.node
    IN  /\ f.op = "Receive"
        /\ f.pc = "insert"
        /\ \E stored \in InsertOutcomes(t) :
             IF ~stored
             THEN /\ Panic(n)
                  /\ UNCHANGED <<Storage, faulty, P2p, db, net, published, last, created, deleted, ops>>
             ELSE /\ streams' = [streams EXCEPT ![n] = (f.from :> f.opened) @@ @]
                  /\ thr' = [thr EXCEPT ![t].pc = "respond",
                                        ![t].stream = OpenStreamReturn(f.opened)]
                  /\ UNCHANGED <<Storage, faulty, P2p, db, crashed, net, published, conns, last,
                                 created, deleted, ops>>

\* stream.WriteToStream(marshaledData), then s.P2p.CloseStream(from).
SyncRespond(t) ==
    LET f == thr[t]
        n == f.node
        w == WriteToStream(conns, f.stream, f.data)
        c == CloseStream(w.conns, streams[n], f.from)
    IN  /\ f.op = "Receive"
        /\ f.pc = "respond"
        /\ IF w.panic \/ (w.err = NoErr /\ c.panic)
           THEN /\ Panic(n)
                /\ UNCHANGED <<Storage, faulty, P2p, db, net, published, last, created, deleted, ops>>
           ELSE IF w.err # NoErr
           THEN /\ ReturnFromSync(t, w.err, w.conns)
                /\ UNCHANGED <<Storage, faulty, P2p, db, crashed, net, published, streams, created, deleted, ops>>
           ELSE /\ ReturnFromSync(t, NoErr, c.conns)
                /\ streams' = [streams EXCEPT ![n] = c.streams]
                /\ UNCHANGED <<Storage, faulty, P2p, db, crashed, net, published, created, deleted, ops>>

(***************************************************************************)
(* Receive, SYNC_RECEIVE: one order of the list per step                   *)
(***************************************************************************)

\* A faulty variant of the loop that returns the error of the first Put that
\* fails and leaves the rest of the list; BatchContinues must tell it from the
\* real one.
SyncPutAborting(t) ==
    LET f == thr[t]
        n == f.node
        order == Head(f.todo)
        orderBytes == MarshalOrder(order)
        key == getOrderStorageKey(f.channelID, order.id)
    IN  /\ f.op = "Receive"
        /\ f.pc = "put"
        /\ \E ok \in StorageOutcomes :
             /\ db' = [db EXCEPT ![n] =
                         IF ok THEN Put(@, key, Stored(f.channelID, order.id, orderBytes))
                         ELSE @]
             /\ IF ~ok THEN ReturnFromSync(t, "Put order", conns)
                ELSE IF Tail(f.todo) = <<>>
                THEN ReturnFromSync(t, NoErr, conns)
                ELSE /\ thr' = [thr EXCEPT ![t].todo = Tail(f.todo)]
                     /\ UNCHANGED <<last, conns>>
        /\ UNCHANGED <<Storage, faulty, P2p, crashed, net, published, streams, created, deleted, ops>>

\* One iteration of the loop: the order is re-encoded and put under
\* (channelID, order.id).  The error of the Put is kept in a variable of the
\* loop body and the loop goes on; Receive returns the outer err, which is
\* empty.
SyncPut(t) ==
    LET f == thr[t]
        n == f.node
        order == Head(f.todo)
        orderBytes == MarshalOrder(order)
        key == getOrderStorageKey(f.channelID, order.id)
    IN  /\ f.op = "Receive"
        /\ f.pc = "put"
        /\ \E ok \in StorageOutcomes :
             /\ db' = [db EXCEPT ![n] =
                         IF ok THEN Put(@, key, Stored(f.channelID, order.id, orderBytes))
                         ELSE @]
             /\ IF Tail(f.todo) = <<>>
                THEN ReturnFromSync(t, NoErr, conns)
                ELSE /\ thr' = [thr EXCEPT ![t].todo = Tail(f.todo),
                                           ![t].err = IF ok THEN NoErr ELSE "Put order"]
                     /\ UNCHANGED <<last, conns>>
        /\ UNCHANGED <<Storage, faulty, P2p, crashed, net, published, streams, created, deleted, ops>>

(***************************************************************************)
(* p2p: the receive loop of an inbound stream                              *)
(***************************************************************************)

Newline == 10

\* The index of the first delimiter in buf, 0 if there is none.
IndexOfNewline(buf) ==
    IF \E i \in 1..Len(buf) : buf[i] = Newline
    THEN CHOOSE i \in 1..Len(buf) : buf[i] = Newline /\ \A j \in 1..(i - 1) : buf[j] # Newline
    ELSE 0

\* ReadBytes('\n') returns a frame, delimiter included, which goes to Receive.
ReadFrame(c) ==
    LET conn == conns[c]
        i == IndexOfNewline(conn.buf)
        data == SubSeq(conn.buf, 1, i)
        rest == SubSeq(conn.buf, i + 1, Len(conn.buf))
    IN  /\ conn.reader = "reading"
        /\ i > 0
        /\ CallReceive(conn.dst, data, conn.src, c,
                       [conns EXCEPT ![c].buf = rest, ![c].got = Append(@, data)])
        /\ UNCHANGED <<Storage, faulty, P2p, crashed, net, published, streams, created, deleted, ops>>

\* ReadBytes('\n') meets the end of the stream before a delimiter: it returns
\* an error, the loop returns it, and the bytes read so far are dropped.
ReadEOF(c) ==
    LET conn == conns[c]
    IN  /\ conn.reader = "reading"
        /\ ~crashed[conn.dst]
        /\ IndexOfNewline(conn.buf) = 0
        /\ ~conn.open
        /\ conns' = [conns EXCEPT ![c].reader = "done", ![c].buf = <<>>,
                                  ![c].cause = "read"]
        /\ UNCHANGED <<Storage, faulty, P2p, db, crashed, thr, net, published, streams, last, created,
                       deleted, ops>>

\* What a peer's own code may write on a stream it opens to n before closing
\* it: a sync request followed by the delimiter, and a message whose last
\* byte happens to be the delimiter.
StreamPayloads ==
    { MarshalWireMessage([channelID |-> ChannelA, operation |-> SYNC_REQUEST,
                          data |-> <<>>]) \o <<Newline>>,
      MarshalWireMessage([channelID |-> <<>>, operation |-> CREATE,
                          data |-> MarshalOrder([EmptyOrder EXCEPT !.amount = Newline])]) }

\* The peer of n opens a stream to n, writes and closes.
InboundStream(n, payload) ==
    /\ ~crashed[n]
    /\ ops < MaxOps
    /\ Len(conns) < MaxConns
    /\ ops' = ops + 1
    /\ conns' = Append(conns, [NewConn(Peer(n), n) EXCEPT !.buf = payload, !.sent = payload,
                                                          !.open = FALSE])
    /\ UNCHANGED <<Storage, faulty, P2p, db, crashed, thr, net, published, streams, last, created, deleted>>

(***************************************************************************)
(* p2p: the stream API called directly                                     *)
(***************************************************************************)

\* The messages a caller writes on a stream: an announced order, whose
\* encoding starts with the delimiter byte and has another inside, and a
\* message whose only delimiter byte is its last byte.
OrderAnnounced ==
    MarshalWireMessage([channelID |-> ChannelB, operation |-> CREATE,
                        data |-> MarshalOrder(OrderC)])
EndsWithNewline ==
    MarshalWireMessage([channelID |-> <<>>, operation |-> CREATE,
                        data |-> MarshalOrder([EmptyOrder EXCEPT !.amount = Newline])])
StreamMessages == {OrderAnnounced, EndsWithNewline}

\* What a peer that ends each message with the delimiter writes: the empty
\* WireMessage, then a message.
FramedPayloads ==
    { <<Newline>> \o EndsWithNewline, EndsWithNewline \o EndsWithNewline }

\* p2p.OpenStream(peer) called on node n.  When host.NewStream fails the
\* error is logged and nothing is stored.
StreamOpen(n, peer) ==
    /\ ~crashed[n]
    /\ ~crashed[peer]
    /\ ops < MaxOps
    /\ ops' = ops + 1
    /\ \E ok \in BOOLEAN :
         IF ok /\ Len(conns) < MaxConns
         THEN /\ conns' = Append(conns, NewConn(n, peer))
              /\ streams' = [streams EXCEPT ![n] = (peer :> (Len(conns) + 1)) @@ @]
         ELSE UNCHANGED <<conns, streams>>
    /\ UNCHANGED <<Storage, faulty, P2p, db, crashed, thr, net, published, last, created, deleted>>

\* The streams a caller on node n can write on: the value OpenStream returned
\* and the streams filed in p2p.streams.
Writable(n) == {ZeroStream} \cup { streams[n][p] : p \in DOMAIN streams[n] }

\* stream.WriteToStream(data) called on node n.
StreamWrite(n, stream, data) ==
    LET w == WriteToStream(conns, stream, data)
    IN  /\ ~crashed[n]
        /\ ops < MaxOps
        /\ ops' = ops + 1
        /\ IF w.panic
           THEN /\ Panic(n)
                /\ UNCHANGED <<Storage, faulty, P2p, db, net, published, last, created, deleted>>
           ELSE /\ conns' = w.conns
                /\ UNCHANGED <<Storage, faulty, P2p, db, crashed, thr, net, published, streams, last,
                               created, deleted>>

\* p2p.CloseStream(peer) called on node n.
StreamClose(n, peer) ==
    LET c == CloseStream(conns, streams[n], peer)
    IN  /\ ~crashed[n]
        /\ ops < MaxOps
        /\ ops' = ops + 1
        /\ IF c.panic
           THEN /\ Panic(n)
                /\ UNCHANGED <<Storage, faulty, P2p, db, net, published, last, created, deleted>>
           ELSE /\ conns' = c.conns
                /\ streams' = [streams EXCEPT ![n] = c.streams]
                /\ UNCHANGED <<Storage, faulty, P2p, db, crashed, thr, net, published, last, created,
                               deleted>>

(***************************************************************************)
(* Specification                                                           *)
(***************************************************************************)

\* The (channel, id) a caller may ask Delete for: those of the orders a Create
\* of this model makes and of the order a peer announces.
DeleteRequests ==
    { [channelID |-> in.channelID, orderID |-> HmacSum(in, now)] :
        in \in Requests, now \in Times }
    \cup {[channelID |-> ChannelB, orderID |-> OrderC.id]}

Next ==
    \/ \E n \in Nodes : RegisterStorage(n)
    \/ \E n \in Nodes : RegisterP2p(n)
    \/ \E in \in Requests, now \in Times : CreatePut(Local, in, now)
    \/ \E t \in Threads : CreateSend(t)
    \/ \E in \in DeleteRequests : DeleteGet(Local, in.channelID, in.orderID)
    \/ \E t \in Threads : DeleteRemove(t)
    \/ \E m \in net : Deliver(m)
    \/ \E buf \in InboundMessages : Inbound(Local, buf)
    \/ \E t \in Threads : SyncOpen(t)
    \/ \E t \in Threads : SyncInsert(t)
    \/ \E t \in Threads : SyncRespond(t)
    \/ \E t \in Threads : SyncPut(t)
    \/ \E c \in DOMAIN conns : ReadFrame(c)
    \/ \E c \in DOMAIN conns : ReadEOF(c)
    \/ \E payload \in StreamPayloads : InboundStream(Local, payload)

Spec == Init /\ [][Next]_vars

\* Create calls only, with the broadcasts they make: the runs Create's
\* isolation is about.
CreateNext ==
    \/ \E n \in Nodes : RegisterStorage(n)
    \/ \E n \in Nodes : RegisterP2p(n)
    \/ \E in \in Requests, now \in Times : CreatePut(Local, in, now)
    \/ \E t \in Threads : CreateSend(t)
    \/ \E m \in net : Deliver(m)

CreateSpec == Init /\ [][CreateNext]_vars

\* The stream API alone: a caller on the local node opens, writes and closes
\* streams to the replica, whose receive loops read them, and the replica
\* writes framed messages on streams of its own.
StreamNext ==
    \/ \E n \in Nodes : RegisterStorage(n)
    \/ StreamOpen(Local, Replica)
    \/ \E stream \in Writable(Local), data \in StreamMessages : StreamWrite(Local, stream, data)
    \/ StreamClose(Local, Replica)
    \/ \E payload \in FramedPayloads : InboundStream(Local, payload)
    \/ \E c \in DOMAIN conns : ReadFrame(c)
    \/ \E c \in DOMAIN conns : ReadEOF(c)

StreamSpec == Init /\ [][StreamNext]_vars

\* What a peer sends a node whose storage can fail: two announcements, one of
\* them of an order the sync answer holds in another version, and a sync
\* answer with two orders.
OrderCEarlier == [OrderC EXCEPT !.amount = 7]
BatchAnswer ==
    MarshalWireMessage([channelID |-> ChannelA, operation |-> SYNC_RECEIVE,
                        data |-> MarshalOrderList(<<OrderC, OrderBC>>)])
BatchMessages ==
    { MarshalWireMessage([channelID |-> ChannelA, operation |-> CREATE,
                          data |-> MarshalOrder(OrderCEarlier)]),
      MarshalWireMessage([channelID |-> ChannelB, operation |-> CREATE,
                          data |-> MarshalOrder(OrderC)]),
      BatchAnswer }

\* Receive on a node whose storage adapter can return errors.
FaultyNext ==
    \/ \E n \in Nodes : RegisterStorage(n)
    \/ \E buf \in BatchMessages : Inbound(Local, buf)
    \/ \E t \in Threads : SyncPut(t)

FaultySpec == InitWith(TRUE) /\ [][FaultyNext]_vars

\* Create calls, with the broadcasts they make, on nodes whose storage
\* adapter can return errors.
FaultyCreateSpec == InitWith(TRUE) /\ [][CreateNext]_vars

(***************************************************************************)
(* Vocabulary of the properties                                            *)
(***************************************************************************)

\* The ids of the orders node n stores under a channel: those a Put for that
\* channel wrote and that are still there.
StoredIn(store, channelID) ==
    { store[k].orderID : k \in { j \in DOMAIN store : store[j].channelID = channelID } }
StoredUnder(n, channelID) == StoredIn(db[n], channelID)

\* (channelID, orderID) of a stored value.
PairOf(value) == <<value.channelID, value.orderID>>

\* The ids of the orders Create has returned on node n for a channel.
CreatedIds(n, channelID) ==
    { r.order.id : r \in { q \in created : q.node = n /\ q.channelID = channelID } }

\* The broadcast that the Create which returned r published.
CreateBroadcast(r) ==
    MarshalWireMessage([channelID |-> r.channelID, operation |-> CREATE,
                        data |-> MarshalOrder(r.order)])

\* The frame of connection c that its receive loop reads next.
Frame(c) == SubSeq(conns[c].buf, 1, IndexOfNewline(conns[c].buf))

\* The messages that can be handed to Receive of node n in the next step.
Arriving(n) ==
    { m.buf : m \in { q \in net : q.to = n } }
    \cup InboundMessages
    \cup { Frame(c) : c \in { d \in DOMAIN conns : conns[d].dst = n } }

\* This step is a call of Receive(buf) on node n.
ReceiveCalled(n, buf) ==
    \/ \E m \in net : m.to = n /\ m.buf = buf /\ Deliver(m)
    \/ buf \in InboundMessages /\ Inbound(n, buf)
    \/ \E c \in DOMAIN conns : conns[c].dst = n /\ Frame(c) = buf /\ ReadFrame(c)

\* This step is a step of a Receive handler of node n.
ReceiveStep(n) ==
    \/ \E buf \in Arriving(n) : ReceiveCalled(n, buf)
    \/ \E t \in Threads :
         thr[t].node = n
         /\ (SyncOpen(t) \/ SyncInsert(t) \/ SyncRespond(t) \/ SyncPut(t))

\* buf decodes as a WireMessage.
WellFormed(buf) == UnmarshalWireMessage(buf).ok

\* buf is a well-formed DELETE, with the (channel, id) it names.
DeleteNamed(w, order) ==
    [ok |-> w.ok /\ w.msg.operation = DELETE /\ order.ok,
     channelID |-> w.msg.channelID, orderID |-> order.order.id]
DeleteOfEnvelope(w) == DeleteNamed(w, UnmarshalOrder(w.msg.data))
DeleteOf(buf) == DeleteOfEnvelope(UnmarshalWireMessage(buf))

\* The ids of the orders in the SYNC_RECEIVE message buf.
AnswerIdsOf(orderList) == { orderList.orders[i].id : i \in DOMAIN orderList.orders }
AnswerIds(buf) == AnswerIdsOf(UnmarshalOrderList(UnmarshalWireMessage(buf).msg.data))

\* The sync request a peer writes on a direct stream.
SyncRequestFrame(channelID) ==
    MarshalWireMessage([channelID |-> channelID, operation |-> SYNC_REQUEST,
                        data |-> <<>>]) \o <<Newline>>

(***************************************************************************)
(* Properties                                                              *)
(***************************************************************************)

\* C1. Create-then-apply convergence: when a node with storage processes,
\* through Receive, the CREATE broadcast of an order r that Create returned
\* on another node for channel c, then its GetOrder(c, r.id) succeeds and
\* returns an order equal to r in every field.
CreateThenApply ==
    [][\A m \in net : \A r \in created :
         (m.from = r.node /\ m.buf = CreateBroadcast(r) /\ Storage[m.to] /\ Deliver(m))
         => GetOrderIn(db'[m.to], r.channelID, r.order.id) = [err |-> NoErr, order |-> r.order]]_vars

\* C1, reached: the replica has processed the CREATE of an order Create
\* returned, and holds it.
CreateApplied ==
    \E r \in created :
        /\ last[Replica].op = "Receive"
        /\ last[Replica].operation = CREATE
        /\ last[Replica].from = r.node
        /\ last[Replica].channelID = r.channelID
        /\ last[Replica].orderID = r.order.id
        /\ last[Replica].err = NoErr
        /\ GetOrder(Replica, r.channelID, r.order.id).order = r.order

\* C2. Sync convergence: the replica held no order of channel "a" and has
\* sent the node a SYNC_REQUEST for "a" over a direct stream; once the node's
\* Receive has handled the request and the replica has processed everything
\* the node wrote back, the replica stores under "a" exactly the ids the node
\* stores under "a".
SyncConverges ==
    \A c \in DOMAIN conns :
        ( /\ conns[c].src = Replica /\ conns[c].dst = Local
          /\ conns[c].sent = SyncRequestFrame(ChannelA)
          \* the node's receive loop on that stream has ended
          /\ conns[c].reader = "done"
          \* the request is the one message from outside; the orders are Create's
          /\ ops = Cardinality(created) + 1
          \* the handler of the request was the last to finish on the node
          /\ last[Local].op = "Receive"
          /\ Running(Local) = {} /\ Running(Replica) = {}
          \* the replica got no order by broadcast, and has read all its streams
          /\ \A r \in created : [to |-> Replica, from |-> Local, buf |-> CreateBroadcast(r)] \in net
          /\ \A d \in DOMAIN conns : conns[d].dst = Replica => conns[d].reader = "done" )
        => StoredUnder(Replica, ChannelA) = StoredUnder(Local, ChannelA)

\* C3. Eventual consistency under reordering: a node created an order r on a
\* channel and then deleted it, every subscriber has received both broadcasts
\* (in either order) and nothing else has happened; then every node holds the
\* same orders for the channel and none stores r.
ReorderingConverges ==
    \A r \in created :
        ( /\ ops = 2
          /\ created = {r}
          /\ deleted = {[node |-> r.node, channelID |-> r.channelID, orderID |-> r.order.id]}
          /\ P2p[r.node]
          /\ net = {}
          /\ \A t \in Threads : thr[t] = Idle )
        => \A n \in Nodes :
             /\ r.order.id \notin StoredUnder(n, r.channelID)
             /\ StoredUnder(n, r.channelID) = StoredUnder(r.node, r.channelID)

\* C4. Idempotent delete: a Delete that repeats the Delete of the same
\* (channel, id) just before it returns no error, and after it storage holds
\* no entry for that key.
DeleteIdempotent ==
    \A n \in Nodes :
        (last[n].op = "Delete" /\ last[n].again)
        => /\ last[n].err = NoErr
           /\ ~Has(db[n], getOrderStorageKey(last[n].channelID, last[n].orderID))

\* C5. Out-of-order delete tolerance: when Receive processes a well-formed
\* DELETE whose order id is not stored under the message's channel on the
\* node, it returns no error and the node's storage is the same after the
\* call as before it.
UnknownDeleteHarmless ==
    [][\A n \in Nodes : \A buf \in Arriving(n) :
         ( /\ DeleteOf(buf).ok
           /\ DeleteOf(buf).orderID \notin StoredUnder(n, DeleteOf(buf).channelID)
           /\ ReceiveCalled(n, buf) )
         => /\ last'[n].op = "Receive"
            /\ last'[n].err = NoErr
            /\ db'[n] = db[n]]_vars

\* C6, first part: a prefix query for channel A never returns an order
\* stored under another channel B.
QueryIsolated ==
    \A n \in Nodes : \A A \in Channels : \A k \in DOMAIN db[n] :
        db[n][k].channelID # A
        => k \notin GetAllWithPrefix(db[n], getOrderQueryPrefix(A))

\* C6, second part: the SYNC_RECEIVE answer that the handler of a
\* SYNC_REQUEST for A builds contains only orders stored under A.
AnswerIsolated ==
    \A t \in Threads : \A n \in Nodes :
        (thr[t] # thr'[t] /\ thr'[t].op = "Receive" /\ thr'[t].pc = "open"
         /\ thr'[t].node = n)
        => AnswerIds(thr'[t].data) \subseteq StoredIn(db'[n], thr'[t].channelID)

\* C6. Channel prefix isolation: for any two distinct channels A and B, also
\* when A is a byte-prefix of B, a prefix query with getOrderQueryPrefix(A)
\* never returns an order stored under B, so the answer to a SYNC_REQUEST for
\* A contains only orders stored under A.
PrefixIsolation == []QueryIsolated /\ [][AnswerIsolated]_vars

\* The (channel, id) pairs that have reached getOrderStorageKey on node n in
\* a step: those of the entries stored before and after it, and that of the
\* call that finished in it.
KeyInputs(n) ==
    { PairOf(db[n][k]) : k \in DOMAIN db[n] }
    \cup { PairOf(db'[n][k]) : k \in DOMAIN db'[n] }
    \cup { <<last'[n].channelID, last'[n].orderID>> }

\* C7, first part: equal keys come from equal (channel, id).
KeyInjective ==
    \A n \in Nodes : \A p \in KeyInputs(n) : \A q \in KeyInputs(n) :
        getOrderStorageKey(p[1], p[2]) = getOrderStorageKey(q[1], q[2]) => p = q

\* C7, second part: no step replaces the entry of one (channel, id) by the
\* entry of another.
NoOverwrite ==
    \A n \in Nodes : \A k \in DOMAIN db[n] \cap DOMAIN db'[n] :
        PairOf(db'[n][k]) = PairOf(db[n][k])

\* C7. Storage key injectivity: getOrderStorageKey(channel1, id1) equals
\* getOrderStorageKey(channel2, id2) only if channel1 = channel2 and
\* id1 = id2, hence storing an order under one (channel, id) never overwrites
\* an order stored under a different (channel, id).
KeyInjectivity == [][KeyInjective /\ NoOverwrite]_vars

\* C8. Storage-less degradation: on a node with no storage registered,
\* Receive of a well-formed WireMessage of any operation returns no error,
\* does not crash, and performs no storage or stream action.
StorageLess ==
    [][\A n \in Nodes : \A buf \in Arriving(n) :
         (~Storage[n] /\ WellFormed(buf) /\ ReceiveCalled(n, buf))
         => /\ last'[n].op = "Receive"
            /\ last'[n].err = NoErr
            /\ crashed' = crashed
            /\ db' = db
            /\ thr' = thr
            /\ streams' = streams
            /\ Len(conns') = Len(conns)
            /\ \A c \in DOMAIN conns :
                 conns'[c].sent = conns[c].sent /\ conns'[c].open = conns[c].open]_vars

\* C8, reached: a node without storage has been handed a SYNC_REQUEST, and
\* its Receive has returned no error.
StorageLessReceived ==
    /\ ~Storage[Local]
    /\ ~crashed[Local]
    /\ last[Local].op = "Receive"
    /\ last[Local].operation = SYNC_REQUEST
    /\ last[Local].channelID = ChannelA
    /\ last[Local].err = NoErr

\* C9. Concurrent create isolation: after Create calls for two channels, in
\* any interleaving, have all finished, the orders stored under each channel
\* are exactly the orders Create returned for it: none is lost, duplicated or
\* stored under the other channel.
CreateIsolation ==
    Running(Local) = {}
    => /\ \A c \in Channels : StoredUnder(Local, c) = CreatedIds(Local, c)
       /\ Cardinality(DOMAIN db[Local]) = Cardinality(created)
       /\ \A r \in created : \A c \in Channels :
            GetOrder(Local, c, r.order.id) =
                IF c = r.channelID THEN [err |-> NoErr, order |-> r.order]
                ELSE [err |-> "Get order", order |-> EmptyOrder]

\* C9, reached: Create has returned orders for both channels and all calls
\* have finished.
CreatedOnBothChannels ==
    /\ Running(Local) = {}
    /\ CreatedIds(Local, ChannelA) # {}
    /\ CreatedIds(Local, ChannelB) # {}
    /\ StoredUnder(Local, ChannelA) = CreatedIds(Local, ChannelA)
    /\ StoredUnder(Local, ChannelB) = CreatedIds(Local, ChannelB)

\* C10. No crash on inbound input or missing collaborator: whatever message
\* arrives, and whether or not storage and transport are registered, no step
\* of Receive crashes the node.
ReceiveNeverCrashes ==
    [][\A n \in Nodes : ReceiveStep(n) => ~crashed'[n]]_vars

\* The receive loop of connection c has handed Receive the messages written on
\* it so far, one frame per message, and all of them once it has met the end
\* of the stream.
FramesAreMessages(c) ==
    /\ HasPrefix(conns[c].written, conns[c].got)
    /\ (conns[c].reader = "done" /\ conns[c].cause = "read"
        => conns[c].got = conns[c].written)

\* C11. One frame per message: on a stream whose bytes were all written with
\* WriteToStream, the peer's receive loop hands the dispatcher exactly one
\* frame per written message, in the order written, each frame carrying
\* exactly the bytes of the message, whatever bytes the message contains.
OneFramePerMessage ==
    \A c \in DOMAIN conns :
        conns[c].written # <<>> /\ conns[c].sent = Join(conns[c].written)
        => FramesAreMessages(c)

\* C12. CloseStream contract: CloseStream(peer) for a peer with an entry in
\* the stream map closes that stream and leaves the map without an entry for
\* the peer; for a peer with no entry it does not crash and leaves the map
\* unchanged.
CloseStreamContract ==
    [][\A n \in Nodes : \A peer \in Nodes :
         StreamClose(n, peer)
         => /\ ~crashed'[n]
            /\ IF peer \in DOMAIN streams[n]
               THEN /\ ~conns'[streams[n][peer]].open
                    /\ peer \notin DOMAIN streams'[n]
               ELSE streams'[n] = streams[n]]_vars

\* C13. SYNC_REQUEST response protocol: after OpenStream(p) the handler of a
\* SYNC_REQUEST writes the SYNC_RECEIVE envelope once on the stream it opened
\* and closes it with CloseStream(p), or returns an error after the first of
\* these that fails; it publishes no broadcast and does not crash.
SyncResponseProtocol ==
    [][\A t \in Threads :
         SyncRespond(t)
         => /\ ~crashed'[thr[t].node]
            /\ published' = published
            /\ \/ /\ last'[thr[t].node].err = NoErr
                  /\ conns'[thr[t].opened].written = <<thr[t].data>>
                  /\ ~conns'[thr[t].opened].open
                  /\ thr[t].from \notin DOMAIN streams'[thr[t].node]
               \/ /\ last'[thr[t].node].err = "Write to stream"
                  /\ conns'[thr[t].opened].written = <<>>
                  /\ streams' = streams]_vars

\* The DELETE broadcast of a Delete call on node n for a channel, carrying
\* the bytes read from storage.
DeleteBroadcast(n, channelID, orderInBytes) ==
    Send(n, [channelID |-> channelID, operation |-> DELETE, data |-> orderInBytes])

\* Handler t is a Delete between its broadcast and its local removal.
BeforeRemoval(t) == thr[t].op = "Delete" /\ thr[t].pc = "remove"

\* C14. Delete ordering: a Delete call that finds the order in storage, on a
\* node with the transport registered, broadcasts the DELETE carrying the
\* stored order bytes in a step that leaves storage as it is, and removes the
\* key only in a later step; no removal by Delete happens without the
\* broadcast having been published.
DeleteOrdering ==
    [][\A t \in Threads :
         /\ ~BeforeRemoval(t) /\ BeforeRemoval(t)' /\ P2p[thr'[t].node]
            => /\ db' = db
               /\ Has(db[thr'[t].node],
                      getOrderStorageKey(thr'[t].channelID, thr'[t].orderID))
               /\ thr'[t].data =
                      db[thr'[t].node][getOrderStorageKey(thr'[t].channelID,
                                                          thr'[t].orderID)].data
               /\ DeleteBroadcast(thr'[t].node, thr'[t].channelID, thr'[t].data)
                      \subseteq published'
         /\ DeleteRemove(t) /\ P2p[thr[t].node]
            => DeleteBroadcast(thr[t].node, thr[t].channelID, thr[t].data)
                   \subseteq published]_vars

\* C14, reached: a Delete has been announced and the node still stores the
\* order, which is where a crash between the two steps leaves it.
AnnouncedNotRemoved ==
    \E t \in Threads :
        /\ BeforeRemoval(t)
        /\ P2p[thr[t].node]
        /\ DeleteBroadcast(thr[t].node, thr[t].channelID, thr[t].data) \subseteq published
        /\ Has(db[thr[t].node], getOrderStorageKey(thr[t].channelID, thr[t].orderID))

\* C15. Receive loop termination closes the stream: each inbound stream has
\* one receive loop, and when that loop has ended on a read error (or an
\* empty frame) the node that read the stream has closed it.
LoopEndClosesStream ==
    \A c \in DOMAIN conns :
        conns[c].reader = "done" /\ conns[c].cause = "read" => conns[c].readerClosed

\* C16. Per-message failure containment on a stream: an error the dispatcher
\* returns for one frame does not end the processing of the stream; no
\* receive loop has ended on such an error while a later well-formed frame of
\* its stream is still to be handed to the dispatcher.
FailureContained ==
    \A c \in DOMAIN conns :
        conns[c].reader = "done" /\ conns[c].cause = "receiver"
        => ~(IndexOfNewline(conns[c].buf) > 0 /\ WellFormed(Frame(c)))

\* Handler t is inside the assignment of OpenStream to the stream map.
InsideInsertion(t) == thr[t].op = "Receive" /\ thr[t].pc = "insert"

\* C17. Exclusive access to the stream map: in every interleaving of
\* concurrent SYNC_REQUEST handlers, while one handler of a node is inside an
\* insertion into the peer-to-stream map no other handler of that node is
\* inside an access to the map.
MapAccessExclusive ==
    \A t \in Threads : InsideInsertion(t) => InsertingWith(t) = {}

\* This step changes the store of node n at key at most: every other key is
\* there as before, with the value it had.
OnlyKeyTouched(n, key) ==
    /\ DOMAIN db'[n] \subseteq DOMAIN db[n] \cup {key}
    /\ \A k \in DOMAIN db[n] \ {key} : k \in DOMAIN db'[n] /\ db'[n][k] = db[n][k]

\* The order is in the store of n under (channelID, order.id), re-encoded.
Persisted(store, channelID, order) ==
    /\ Has(store, getOrderStorageKey(channelID, order.id))
    /\ store[getOrderStorageKey(channelID, order.id)].data = MarshalOrder(order)

SyncRequestReturns(t) ==
    /\ thr[t].op = "Receive"
    /\ thr[t].operation = SYNC_REQUEST
    /\ thr'[t].op = "idle"
    /\ ~crashed'[thr[t].node]

HoldsStream(t) == thr[t].op = "Receive" /\ thr[t].pc = "respond"

\* C20. Concurrent sync requests from one peer do not interfere: in every
\* interleaving, a handler that has opened a stream to peer p and is about to
\* write and to call CloseStream(p) finds the map with an entry for p, and
\* that entry is the stream it opened itself, not another handler's.
OwnStreamFiled ==
    \A t \in Threads :
        HoldsStream(t)
        => /\ thr[t].from \in DOMAIN streams[thr[t].node]
           /\ streams[thr[t].node][thr[t].from] = thr[t].opened

\* In this step the Create call t publishes its CREATE broadcast.
CreateAnnounces(t) == CreateSend(t) /\ P2p[thr[t].node]

\* C21. Announced orders are stored by their creator: whenever Create
\* broadcasts a CREATE message for an order, the order is in the creating
\* node's storage under (channelID, order.id) at that moment; a Create whose
\* Put failed, and which returns an error, broadcasts nothing.
AnnouncedIsStored ==
    [][\A t \in Threads :
         /\ CreateAnnounces(t)
            => Persisted(db[thr[t].node], thr[t].channelID, thr[t].order)
         /\ CreateSend(t) /\ thr[t].err # NoErr
            => published' = published /\ net' = net]_vars

====
